---- MODULE Spec2Model ----
(***************************************************************************)
(* The administrative datum adapter of RethinkDB                           *)
(* (src/clustering/administration/datum_adapter.cc): the scalar            *)
(* converters, the identifier resolvers for servers, databases and tables, *)
(* and converter_from_datum_object_t, the strict-schema object decoder.    *)
(*                                                                         *)
(* A string (std::string, datum_string_t, name_string_t) is a sequence of  *)
(* one-character strings; the fixed text of a printf template is kept as   *)
(* one element.  A uuid_u is a number; its canonical text is scaled down   *)
(* from 8-4-4-4-12 hex digits to 1-1.                                      *)
(*                                                                         *)
(* Every converter is an operator from its arguments and the previous      *)
(* values of the caller's out-parameters to their new values.  The caller  *)
(* is at "idle", calls one function (the result is then in out, the        *)
(* arguments in call), and moves back to "idle" with Return.               *)
(***************************************************************************)
EXTENDS Integers, Sequences, FiniteSets, TLC

VARIABLES
    pc,          \* the caller: "idle", "returned", or "aborted" (guarantee failed)
    call,        \* the arguments of the call that returned last
    out,         \* the caller's out-parameters and the returned flag
    datum,       \* converter_from_datum_object_t::datum
    extra_keys,  \* converter_from_datum_object_t::extra_keys
    consumed,    \* history: the keys passed to get/get_optional since the last successful init
    inits        \* history: the number of successful init calls on the decoder

vars == <<pc, call, out, datum, extra_keys, consumed, inits>>

-----------------------------------------------------------------------------
(* Bounds *)

\* uuids 1..NumIds may have an entry in a snapshot
NumIds == 2
\* successful init calls on one decoder
MaxInits == 2

-----------------------------------------------------------------------------
(* Strings, names, uuids *)

Hex == <<"0", "1", "2", "3", "4", "5", "6", "7", "8", "9", "a", "b", "c", "d", "e", "f">>

IsHex(c) == \E i \in 1..16 : Hex[i] = c

HexVal(c) == (CHOOSE i \in 1..16 : Hex[i] = c) - 1

uuid_to_str(u) == <<Hex[(u \div 16) + 1], "-", Hex[(u % 16) + 1]>>

str_to_uuid(s) ==
    IF Len(s) = 3 /\ s[2] = "-" /\ IsHex(s[1]) /\ IsHex(s[3])
    THEN [ok |-> TRUE, value |-> HexVal(s[1]) * 16 + HexVal(s[3])]
    ELSE [ok |-> FALSE, value |-> 0]

ValidNameChars ==
    {"a", "b", "c", "d", "e", "f", "g", "h", "i", "j", "k", "l", "m",
     "n", "o", "p", "q", "r", "s", "t", "u", "v", "w", "x", "y", "z",
     "0", "1", "2", "3", "4", "5", "6", "7", "8", "9", "_"}

\* the backquote character of the messages, which a TLA+ string cannot hold
BQ == "BACKQUOTE"

valid_char_msg == <<"Use A-Za-z0-9_ only">>

\* name_string_t::assign_value: whether s is accepted as a name
assign_value(s) == s # <<>> /\ \A i \in 1..Len(s) : s[i] \in ValidNameChars

\* name_string_t::guarantee_valid("__deleted_database__")
deleted_database_name ==
    <<"_", "_", "d", "e", "l", "e", "t", "e", "d", "_",
      "d", "a", "t", "a", "b", "a", "s", "e", "_", "_">>

\* whether the string part occurs in the message msg
Cites(msg, part) ==
    \E i \in 0..(Len(msg) - Len(part)) : SubSeq(msg, i + 1, i + Len(part)) = part

-----------------------------------------------------------------------------
(* Datums *)

datum_empty == [type |-> "UNINITIALIZED"]
datum_null == [type |-> "R_NULL"]
datum_num(n) == [type |-> "R_NUM", num |-> n]
datum_str(s) == [type |-> "R_STR", str |-> s]
datum_object(f) == [type |-> "R_OBJECT", obj |-> f]

datum_has(d) == d.type # "UNINITIALIZED"

datum_print(d) ==
    CASE d.type = "R_STR" -> <<"\"">> \o d.str \o <<"\"">>
      [] d.type = "R_NUM" -> <<Hex[d.num + 1]>>
      [] OTHER -> <<"null">>

get_field(d, key) == IF key \in DOMAIN d.obj THEN d.obj[key] ELSE datum_empty

-----------------------------------------------------------------------------
(* Scalar converters *)

convert_name_to_datum(value) == datum_str(value)

convert_name_from_datum(d, what, error_prev) ==
    IF d.type # "R_STR"
    THEN [ret |-> FALSE, value |-> <<>>,
          error |-> <<"Expected a ">> \o what \o <<"; got ">> \o datum_print(d)]
    ELSE IF ~assign_value(d.str)
    THEN [ret |-> FALSE, value |-> <<>>,
          error |-> datum_print(d) \o <<" is not a valid ">> \o what \o <<"; ">>
                    \o valid_char_msg]
    ELSE [ret |-> TRUE, value |-> d.str, error |-> error_prev]

convert_uuid_to_datum(value) == datum_str(uuid_to_str(value))

convert_uuid_from_datum(d, error_prev) ==
    IF d.type # "R_STR"
    THEN [ret |-> FALSE, value |-> 0, error |-> <<"Expected a UUID; got ">> \o datum_print(d)]
    ELSE IF ~str_to_uuid(d.str).ok
    THEN [ret |-> FALSE, value |-> 0, error |-> <<"Expected a UUID; got ">> \o datum_print(d)]
    ELSE [ret |-> TRUE, value |-> str_to_uuid(d.str).value, error |-> error_prev]

\* faulty variant: the two branches exchanged
convert_name_or_uuid_to_datum_swapped(name, uuid, identifier_format) ==
    IF identifier_format = "name"
    THEN convert_uuid_to_datum(uuid)
    ELSE convert_name_to_datum(name)

convert_name_or_uuid_to_datum(name, uuid, identifier_format) ==
    IF identifier_format = "name"
    THEN convert_name_to_datum(name)
    ELSE convert_uuid_to_datum(uuid)

-----------------------------------------------------------------------------
(* Metadata snapshots *)

Ids == 1..NumIds

TableIds == {1}

Names == {<<"a">>, <<"b">>}

TableNames == {<<"t">>}

\* deletable_t<T>: a tombstone, or a live value
Deleted == [deleted |-> TRUE]

DatabaseEntries == {Deleted} \cup {[deleted |-> FALSE, name |-> n] : n \in Names}

TableEntries ==
    {Deleted} \cup {[deleted |-> FALSE, name |-> n, database |-> db] : n \in TableNames, db \in Ids}

\* metadata.databases.databases
DatabaseMaps == UNION {[D -> DatabaseEntries] : D \in SUBSET Ids}

\* metadata.rdb_namespaces->namespaces
NamespaceMaps == UNION {[T -> TableEntries] : T \in SUBSET TableIds}

\* the servers a server_config_client_t knows of
ServerMaps == UNION {[D -> DatabaseEntries] : D \in SUBSET Ids}

IsLive(map, id) == id \in DOMAIN map /\ ~map[id].deleted

LiveNamed(map, name) == {id \in DOMAIN map : ~map[id].deleted /\ map[id].name = name}

\* server_config_client_t::get_name_for_server_id
get_name_for_server_id(client, server_id) ==
    IF IsLive(client, server_id)
    THEN [has |-> TRUE, name |-> client[server_id].name]
    ELSE [has |-> FALSE]

\* server_config_client_t::get_name_to_server_id_map: the multimap as its set of pairs
get_name_to_server_id_map(client) ==
    {<<client[id].name, id>> : id \in {i \in DOMAIN client : ~client[i].deleted}}

map_count(map, name) == Cardinality({p \in map : p[1] = name})

map_find(map, name) ==
    CHOOSE p \in map : p[1] = name /\ \A q \in map : q[1] = name => p[2] <= q[2]

\* const_metadata_searcher_t::find_uniq
find_uniq(databases, name) ==
    LET found == LiveNamed(databases, name)
    IN  IF found = {} THEN [status |-> "METADATA_ERR_NONE", it |-> 0]
        ELSE IF Cardinality(found) > 1 THEN [status |-> "METADATA_ERR_MULTIPLE", it |-> 0]
        ELSE [status |-> "METADATA_SUCCESS", it |-> CHOOSE id \in found : TRUE]

check_metadata_status(status, entity_type, entity_name, expect_present, error_prev) ==
    CASE status = "METADATA_SUCCESS" ->
            IF expect_present
            THEN [ret |-> TRUE, error |-> error_prev]
            ELSE [ret |-> FALSE,
                  error |-> entity_type \o <<" ", BQ>> \o entity_name \o <<BQ, " already exists.">>]
      [] status = "METADATA_ERR_NONE" ->
            IF expect_present
            THEN [ret |-> FALSE,
                  error |-> entity_type \o <<" ", BQ>> \o entity_name \o <<BQ, " does not exist.">>]
            ELSE [ret |-> TRUE, error |-> error_prev]
      [] OTHER ->
            [ret |-> FALSE,
             error |-> entity_type \o <<" ", BQ>> \o entity_name
                       \o <<BQ, " is ambiguous; there are multiple entities with that name.">>]

-----------------------------------------------------------------------------
(* Identifier resolvers.  want is the set of out-parameters that are not   *)
(* nullptr; prev holds the caller's variables before the call.             *)

\* faulty variant: in uuid format the server is not looked up
convert_server_id_to_datum_no_lookup(server_id, identifier_format, client, want, prev) ==
    LET name == get_name_for_server_id(client, server_id)
    IN  IF identifier_format = "uuid"
        THEN [prev EXCEPT
                !.ret = TRUE,
                !.name_or_uuid =
                    IF "name_or_uuid" \in want THEN convert_uuid_to_datum(server_id) ELSE @,
                !.name = IF "name" \in want /\ name.has THEN name.name ELSE @]
        ELSE IF ~name.has
        THEN [prev EXCEPT !.ret = FALSE]
        ELSE [prev EXCEPT
                !.ret = TRUE,
                !.name_or_uuid =
                    IF "name_or_uuid" \in want THEN convert_name_to_datum(name.name) ELSE @,
                !.name = IF "name" \in want THEN name.name ELSE @]

convert_server_id_to_datum(server_id, identifier_format, client, want, prev) ==
    LET name == get_name_for_server_id(client, server_id)
    IN  IF ~name.has
        THEN [prev EXCEPT !.ret = FALSE]
        ELSE [prev EXCEPT
                !.ret = TRUE,
                !.name_or_uuid =
                    IF "name_or_uuid" \in want
                    THEN convert_name_or_uuid_to_datum(name.name, server_id, identifier_format)
                    ELSE @,
                !.name = IF "name" \in want THEN name.name ELSE @]

\* faulty variant: a name with several servers resolves to the first of them
server_id_from_name_first_match(server_name_or_uuid, client, want, prev) ==
    LET name == convert_name_from_datum(server_name_or_uuid, <<"server name">>, prev.error)
        map == get_name_to_server_id_map(client)
    IN  IF ~name.ret
        THEN [prev EXCEPT !.ret = FALSE, !.error = name.error]
        ELSE IF map_count(map, name.value) = 0
        THEN [prev EXCEPT
                !.ret = FALSE,
                !.error = <<"Server ", BQ>> \o name.value \o <<BQ, " does not exist.">>]
        ELSE [prev EXCEPT
                !.ret = TRUE,
                !.id = IF "id" \in want THEN map_find(map, name.value)[2] ELSE @,
                !.name = IF "name" \in want THEN name.value ELSE @]

\* faulty variant: the name is parsed into the caller's server_name_out
server_id_from_name_direct_out(server_name_or_uuid, client, want, prev) ==
    LET name == convert_name_from_datum(server_name_or_uuid, <<"server name">>, prev.error)
        map == get_name_to_server_id_map(client)
        parsed == [prev EXCEPT !.name = IF "name" \in want THEN name.value ELSE @]
    IN  IF ~name.ret
        THEN [prev EXCEPT !.ret = FALSE, !.error = name.error]
        ELSE IF map_count(map, name.value) = 0
        THEN [parsed EXCEPT
                !.ret = FALSE,
                !.error = <<"Server ", BQ>> \o name.value \o <<BQ, " does not exist.">>]
        ELSE IF map_count(map, name.value) > 1
        THEN [parsed EXCEPT
                !.ret = FALSE,
                !.error = <<"Server ", BQ>> \o name.value
                          \o <<BQ, " is ambiguous; there are multiple servers with that name.">>]
        ELSE [parsed EXCEPT
                !.ret = TRUE,
                !.id = IF "id" \in want THEN map_find(map, name.value)[2] ELSE @]

\* the branch identifier_format == admin_identifier_format_t::name
server_id_from_name(server_name_or_uuid, client, want, prev) ==
    LET name == convert_name_from_datum(server_name_or_uuid, <<"server name">>, prev.error)
        map == get_name_to_server_id_map(client)
    IN  IF ~name.ret
        THEN [prev EXCEPT !.ret = FALSE, !.error = name.error]
        ELSE IF map_count(map, name.value) = 0
        THEN [prev EXCEPT
                !.ret = FALSE,
                !.error = <<"Server ", BQ>> \o name.value \o <<BQ, " does not exist.">>]
        ELSE IF map_count(map, name.value) > 1
        THEN [prev EXCEPT
                !.ret = FALSE,
                !.error = <<"Server ", BQ>> \o name.value
                          \o <<BQ, " is ambiguous; there are multiple servers with that name.">>]
        ELSE [prev EXCEPT
                !.ret = TRUE,
                !.id = IF "id" \in want THEN map_find(map, name.value)[2] ELSE @,
                !.name = IF "name" \in want THEN name.value ELSE @]

\* the branch identifier_format == admin_identifier_format_t::uuid
server_id_from_uuid(server_name_or_uuid, client, want, prev) ==
    LET id == convert_uuid_from_datum(server_name_or_uuid, prev.error)
        name == get_name_for_server_id(client, id.value)
    IN  IF ~id.ret
        THEN [prev EXCEPT !.ret = FALSE, !.error = id.error]
        ELSE IF ~name.has
        THEN [prev EXCEPT
                !.ret = FALSE,
                !.error = <<"There is no server with UUID ", BQ>> \o uuid_to_str(id.value)
                          \o <<BQ, ".">>]
        ELSE [prev EXCEPT
                !.ret = TRUE,
                !.id = IF "id" \in want THEN id.value ELSE @,
                !.name = IF "name" \in want THEN name.name ELSE @]

convert_server_id_from_datum(server_name_or_uuid, identifier_format, client, want, prev) ==
    IF identifier_format = "name"
    THEN server_id_from_name(server_name_or_uuid, client, want, prev)
    ELSE server_id_from_uuid(server_name_or_uuid, client, want, prev)

\* faulty variant: a table whose database is gone is not resolved
convert_table_id_to_datums_strict(table_id, identifier_format, namespaces, databases, want, prev) ==
    IF table_id \notin DOMAIN namespaces \/ namespaces[table_id].deleted
    THEN [prev EXCEPT !.ret = FALSE]
    ELSE
        LET table_name == namespaces[table_id].name
            db_id == namespaces[table_id].database
        IN  IF db_id \notin DOMAIN databases \/ databases[db_id].deleted
            THEN [prev EXCEPT !.ret = FALSE]
            ELSE [prev EXCEPT
                    !.ret = TRUE,
                    !.name_or_uuid =
                        IF "name_or_uuid" \in want
                        THEN convert_name_or_uuid_to_datum(table_name, table_id,
                                                           identifier_format)
                        ELSE @,
                    !.name = IF "name" \in want THEN table_name ELSE @,
                    !.db_name_or_uuid =
                        IF "db_name_or_uuid" \in want
                        THEN convert_name_or_uuid_to_datum(databases[db_id].name, db_id,
                                                           identifier_format)
                        ELSE @,
                    !.db_name = IF "db_name" \in want THEN databases[db_id].name ELSE @]

convert_table_id_to_datums(table_id, identifier_format, namespaces, databases, want, prev) ==
    IF table_id \notin DOMAIN namespaces \/ namespaces[table_id].deleted
    THEN [prev EXCEPT !.ret = FALSE]
    ELSE
        LET table_name == namespaces[table_id].name
            db_id == namespaces[table_id].database
            db_name == IF db_id \notin DOMAIN databases \/ databases[db_id].deleted
                       THEN deleted_database_name
                       ELSE databases[db_id].name
        IN  [prev EXCEPT
                !.ret = TRUE,
                !.name_or_uuid =
                    IF "name_or_uuid" \in want
                    THEN convert_name_or_uuid_to_datum(table_name, table_id, identifier_format)
                    ELSE @,
                !.name = IF "name" \in want THEN table_name ELSE @,
                !.db_name_or_uuid =
                    IF "db_name_or_uuid" \in want
                    THEN convert_name_or_uuid_to_datum(db_name, db_id, identifier_format)
                    ELSE @,
                !.db_name = IF "db_name" \in want THEN db_name ELSE @]

convert_database_id_to_datum(db_id, identifier_format, databases, want, prev) ==
    IF db_id \notin DOMAIN databases
    THEN [prev EXCEPT !.abort = TRUE]  \* guarantee(it != ...end()) fails
    ELSE IF databases[db_id].deleted
    THEN [prev EXCEPT !.ret = FALSE]
    ELSE
        LET db_name == databases[db_id].name
        IN  [prev EXCEPT
                !.ret = TRUE,
                !.name_or_uuid =
                    IF "name_or_uuid" \in want
                    THEN convert_name_or_uuid_to_datum(db_name, db_id, identifier_format)
                    ELSE @,
                !.name = IF "name" \in want THEN db_name ELSE @]

\* the branch identifier_format == admin_identifier_format_t::name
database_id_from_name(db_name_or_uuid, databases, want, prev) ==
    LET name == convert_name_from_datum(db_name_or_uuid, <<"database name">>, prev.error)
        found == find_uniq(databases, name.value)
        status == check_metadata_status(found.status, <<"Database">>, name.value, TRUE,
                                        prev.error)
    IN  IF ~name.ret
        THEN [prev EXCEPT !.ret = FALSE, !.error = name.error]
        ELSE IF ~status.ret
        THEN [prev EXCEPT !.ret = FALSE, !.error = status.error]
        ELSE [prev EXCEPT
                !.ret = TRUE,
                !.id = IF "id" \in want THEN found.it ELSE @,
                !.name = IF "name" \in want THEN name.value ELSE @]

\* faulty variant: a tombstoned entry counts as a database
database_id_from_uuid_any_entry(db_name_or_uuid, databases, want, prev) ==
    LET db_id == convert_uuid_from_datum(db_name_or_uuid, prev.error)
    IN  IF ~db_id.ret
        THEN [prev EXCEPT !.ret = FALSE, !.error = db_id.error]
        ELSE IF db_id.value \notin DOMAIN databases
        THEN [prev EXCEPT
                !.ret = FALSE,
                !.error = <<"There is no database with UUID ", BQ>>
                          \o uuid_to_str(db_id.value) \o <<BQ, ".">>]
        ELSE [prev EXCEPT
                !.ret = TRUE,
                !.id = IF "id" \in want THEN db_id.value ELSE @,
                !.name = IF "name" \in want /\ ~databases[db_id.value].deleted
                         THEN databases[db_id.value].name
                         ELSE @]

\* the branch identifier_format == admin_identifier_format_t::uuid
database_id_from_uuid(db_name_or_uuid, databases, want, prev) ==
    LET db_id == convert_uuid_from_datum(db_name_or_uuid, prev.error)
    IN  IF ~db_id.ret
        THEN [prev EXCEPT !.ret = FALSE, !.error = db_id.error]
        ELSE IF db_id.value \notin DOMAIN databases \/ databases[db_id.value].deleted
        THEN [prev EXCEPT
                !.ret = FALSE,
                !.error = <<"There is no database with UUID ", BQ>>
                          \o uuid_to_str(db_id.value) \o <<BQ, ".">>]
        ELSE [prev EXCEPT
                !.ret = TRUE,
                !.id = IF "id" \in want THEN db_id.value ELSE @,
                !.name = IF "name" \in want THEN databases[db_id.value].name ELSE @]

convert_database_id_from_datum(db_name_or_uuid, identifier_format, databases, want, prev) ==
    IF identifier_format = "name"
    THEN database_id_from_name(db_name_or_uuid, databases, want, prev)
    ELSE database_id_from_uuid(db_name_or_uuid, databases, want, prev)

-----------------------------------------------------------------------------
(* converter_from_datum_object_t.  this is the decoder's fields before the *)
(* call; the result holds them after it, with the caller's variables.      *)

\* the characters in the order of their byte values
Ascii ==
    <<" ", "\"", "-", "0", "1", "2", "3", "4", "5", "6", "7", "8", "9", "_",
      "a", "b", "c", "d", "e", "f", "g", "h", "i", "j", "k", "l", "m",
      "n", "o", "p", "q", "r", "s", "t", "u", "v", "w", "x", "y", "z">>

ByteOf(c) == CHOOSE i \in 1..Len(Ascii) : Ascii[i] = c

\* datum_string_t::operator<: byte-wise lexicographic order
RECURSIVE datum_string_less(_, _)
datum_string_less(a, b) ==
    IF b = <<>> THEN FALSE
    ELSE IF a = <<>> THEN TRUE
    ELSE IF ByteOf(Head(a)) # ByteOf(Head(b)) THEN ByteOf(Head(a)) < ByteOf(Head(b))
    ELSE datum_string_less(Tail(a), Tail(b))

\* the elements of a std::set<datum_string_t> in iteration order
RECURSIVE set_in_order(_)
set_in_order(keys) ==
    IF keys = {} THEN <<>>
    ELSE LET first == CHOOSE k \in keys : \A j \in keys : ~datum_string_less(j, k)
         IN  <<first>> \o set_in_order(keys \ {first})

RECURSIVE append_keys(_, _)
append_keys(error, keys) ==
    IF keys = <<>> THEN error
    ELSE append_keys(error \o <<" ">> \o Head(keys), Tail(keys))

init(this, _datum, prev) ==
    IF _datum.type # "R_OBJECT"
    THEN [datum |-> this.datum, extra_keys |-> this.extra_keys,
          out |-> [prev EXCEPT
                     !.ret = FALSE,
                     !.error = <<"Expected an object; got ">> \o datum_print(_datum)]]
    ELSE [datum |-> _datum, extra_keys |-> this.extra_keys \cup DOMAIN _datum.obj,
          out |-> [prev EXCEPT !.ret = TRUE]]

get(this, key, prev) ==
    LET value == get_field(this.datum, key)
    IN  [datum |-> this.datum, extra_keys |-> this.extra_keys \ {key},
         out |-> IF ~datum_has(value)
                 THEN [prev EXCEPT
                         !.ret = FALSE,
                         !.value = value,
                         !.error = <<"Expected a field named ", BQ>> \o key \o <<BQ, ".">>]
                 ELSE [prev EXCEPT !.ret = TRUE, !.value = value]]

\* faulty variant: a missing field is given as a null datum
get_optional_null_marker(this, key, prev) ==
    [datum |-> this.datum, extra_keys |-> this.extra_keys \ {key},
     out |-> [prev EXCEPT
                !.value = IF key \in DOMAIN this.datum.obj
                          THEN this.datum.obj[key]
                          ELSE datum_null]]

get_optional(this, key, prev) ==
    [datum |-> this.datum, extra_keys |-> this.extra_keys \ {key},
     out |-> [prev EXCEPT !.value = get_field(this.datum, key)]]

\* faulty variant: has takes the key out of the unseen keys, as get does
has_consuming(this, key, prev) ==
    [datum |-> this.datum, extra_keys |-> this.extra_keys \ {key},
     out |-> [prev EXCEPT !.ret = datum_has(get_field(this.datum, key))]]

has(this, key, prev) ==
    [datum |-> this.datum, extra_keys |-> this.extra_keys,
     out |-> [prev EXCEPT !.ret = datum_has(get_field(this.datum, key))]]

\* faulty variant: only the first unseen key is reported
check_no_extra_keys_first_key(this, prev) ==
    [datum |-> this.datum, extra_keys |-> this.extra_keys,
     out |-> IF this.extra_keys # {}
             THEN [prev EXCEPT
                     !.ret = FALSE,
                     !.error = <<"Unexpected key(s):", " ">>
                               \o Head(set_in_order(this.extra_keys))]
             ELSE [prev EXCEPT !.ret = TRUE]]

check_no_extra_keys(this, prev) ==
    [datum |-> this.datum, extra_keys |-> this.extra_keys,
     out |-> IF this.extra_keys # {}
             THEN [prev EXCEPT
                     !.ret = FALSE,
                     !.error = append_keys(<<"Unexpected key(s):">>,
                                           set_in_order(this.extra_keys))]
             ELSE [prev EXCEPT !.ret = TRUE]]

-----------------------------------------------------------------------------
(* Inputs *)

Formats == {"name", "uuid"}

\* the datums handed to the identifier decoders
ScalarInputs ==
    {datum_str(n) : n \in Names}
        \cup {datum_str(uuid_to_str(id)) : id \in Ids}
        \cup {datum_str(<<"a", " ">>), datum_num(1)}

Keys == {<<"a">>, <<"b">>, <<"c">>}

ObjectABC == (<<"a">> :> datum_num(1)) @@ (<<"b">> :> datum_num(2)) @@ (<<"c">> :> datum_num(3))

ObjectNull == (<<"a">> :> datum_null)

\* the datums handed to init
InitInputs ==
    {datum_object(ObjectABC), datum_object(ObjectNull), datum_str(<<"a">>), datum_num(1)}

\* the caller's variables before a call
PrevOuts ==
    {[ret |-> FALSE, abort |-> FALSE, id |-> 0, name |-> <<"p">>, error |-> e,
      name_or_uuid |-> datum_empty, db_name_or_uuid |-> datum_empty,
      db_name |-> <<"p">>, value |-> datum_empty] : e \in {<<>>, <<"previous error">>}}

NoOut == CHOOSE o \in PrevOuts : o.error = <<>>

NoCall == [op |-> "none"]

-----------------------------------------------------------------------------
(* The state machine *)

Init ==
    /\ pc = "idle"
    /\ call = NoCall
    /\ out = NoOut
    /\ datum = datum_empty
    /\ extra_keys = {}
    /\ consumed = {}
    /\ inits = 0

this == [datum |-> datum, extra_keys |-> extra_keys]

Returns(c, o) ==
    /\ call' = c
    /\ out' = o
    /\ pc' = IF o.abort THEN "aborted" ELSE "returned"

ServerIdToDatum ==
    /\ pc = "idle"
    /\ \E server_id \in Ids, f \in Formats, client \in ServerMaps,
          want \in SUBSET {"name_or_uuid", "name"}, prev \in PrevOuts :
            Returns([op |-> "convert_server_id_to_datum", id |-> server_id, format |-> f,
                     map |-> client, want |-> want, prev |-> prev],
                    convert_server_id_to_datum(server_id, f, client, want, prev))
    /\ UNCHANGED <<datum, extra_keys, consumed, inits>>

ServerIdFromDatum ==
    /\ pc = "idle"
    /\ \E d \in ScalarInputs, f \in Formats, client \in ServerMaps,
          want \in SUBSET {"id", "name"}, prev \in PrevOuts :
            Returns([op |-> "convert_server_id_from_datum", datum |-> d, format |-> f,
                     map |-> client, want |-> want, prev |-> prev],
                    convert_server_id_from_datum(d, f, client, want, prev))
    /\ UNCHANGED <<datum, extra_keys, consumed, inits>>

TableIdToDatums ==
    /\ pc = "idle"
    /\ \E table_id \in TableIds, f \in Formats, namespaces \in NamespaceMaps,
          databases \in DatabaseMaps,
          want \in SUBSET {"name_or_uuid", "name", "db_name_or_uuid", "db_name"},
          prev \in PrevOuts :
            Returns([op |-> "convert_table_id_to_datums", id |-> table_id, format |-> f,
                     namespaces |-> namespaces, map |-> databases, want |-> want,
                     prev |-> prev],
                    convert_table_id_to_datums(table_id, f, namespaces, databases, want, prev))
    /\ UNCHANGED <<datum, extra_keys, consumed, inits>>

DatabaseIdToDatum ==
    /\ pc = "idle"
    /\ \E db_id \in Ids, f \in Formats, databases \in DatabaseMaps,
          want \in SUBSET {"name_or_uuid", "name"}, prev \in PrevOuts :
            Returns([op |-> "convert_database_id_to_datum", id |-> db_id, format |-> f,
                     map |-> databases, want |-> want, prev |-> prev],
                    convert_database_id_to_datum(db_id, f, databases, want, prev))
    /\ UNCHANGED <<datum, extra_keys, consumed, inits>>

DatabaseIdFromDatum ==
    /\ pc = "idle"
    /\ \E d \in ScalarInputs, f \in Formats, databases \in DatabaseMaps,
          want \in SUBSET {"id", "name"}, prev \in PrevOuts :
            Returns([op |-> "convert_database_id_from_datum", datum |-> d, format |-> f,
                     map |-> databases, want |-> want, prev |-> prev],
                    convert_database_id_from_datum(d, f, databases, want, prev))
    /\ UNCHANGED <<datum, extra_keys, consumed, inits>>

\* a call of a decoder method; call.this keeps the decoder's fields before the call
DecoderReturns(c, r) ==
    /\ Returns(c, r.out)
    /\ datum' = r.datum
    /\ extra_keys' = r.extra_keys

DecoderInit ==
    /\ pc = "idle"
    /\ \E d \in InitInputs, prev \in PrevOuts :
        /\ d.type = "R_OBJECT" => inits < MaxInits
        /\ DecoderReturns([op |-> "init", datum |-> d, this |-> this, prev |-> prev],
                          init(this, d, prev))
        /\ consumed' = IF d.type = "R_OBJECT" THEN {} ELSE consumed
        /\ inits' = IF d.type = "R_OBJECT" THEN inits + 1 ELSE inits

\* get, get_optional and has read the fields of datum: they follow a successful init
DecoderGet ==
    /\ pc = "idle"
    /\ inits > 0
    /\ \E key \in Keys, prev \in PrevOuts :
        /\ DecoderReturns([op |-> "get", key |-> key, this |-> this, prev |-> prev],
                          get(this, key, prev))
        /\ consumed' = consumed \cup {key}
    /\ UNCHANGED inits

DecoderGetOptional ==
    /\ pc = "idle"
    /\ inits > 0
    /\ \E key \in Keys, prev \in PrevOuts :
        /\ DecoderReturns([op |-> "get_optional", key |-> key, this |-> this, prev |-> prev],
                          get_optional(this, key, prev))
        /\ consumed' = consumed \cup {key}
    /\ UNCHANGED inits

DecoderHas ==
    /\ pc = "idle"
    /\ inits > 0
    /\ \E key \in Keys, prev \in PrevOuts :
        DecoderReturns([op |-> "has", key |-> key, this |-> this, prev |-> prev],
                       has(this, key, prev))
    /\ UNCHANGED <<consumed, inits>>

DecoderCheckNoExtraKeys ==
    /\ pc = "idle"
    /\ \E prev \in PrevOuts :
        DecoderReturns([op |-> "check_no_extra_keys", this |-> this, prev |-> prev],
                       check_no_extra_keys(this, prev))
    /\ UNCHANGED <<consumed, inits>>

\* the caller has read the result and is ready for its next call
Return ==
    /\ pc = "returned"
    /\ pc' = "idle"
    /\ call' = NoCall
    /\ out' = NoOut
    /\ UNCHANGED <<datum, extra_keys, consumed, inits>>

Next ==
    \/ ServerIdToDatum
    \/ ServerIdFromDatum
    \/ TableIdToDatums
    \/ DatabaseIdToDatum
    \/ DatabaseIdFromDatum
    \/ DecoderInit
    \/ DecoderGet
    \/ DecoderGetOptional
    \/ DecoderHas
    \/ DecoderCheckNoExtraKeys
    \/ Return

Spec == Init /\ [][Next]_vars

-----------------------------------------------------------------------------
(* Properties *)

Returned(op) == pc = "returned" /\ call.op = op

\* the failure kinds, told by the text of the message
NotFound(error) ==
    \E i \in 1..Len(error) :
        error[i] \in {" does not exist.", "There is no server with UUID ",
                      "There is no database with UUID "}

Ambiguous(error) ==
    \E i \in 1..Len(error) :
        error[i] \in {" is ambiguous; there are multiple servers with that name.",
                      " is ambiguous; there are multiple entities with that name."}

C1_Case ==
    /\ Returned("convert_server_id_from_datum")
    /\ call.format = "name"
    /\ call.datum.type = "R_STR"
    /\ assign_value(call.datum.str)

\* C1: decoding a valid name n as a server name has one of three outcomes, decided by
\* the number of live servers named n: none, failure NotFound citing n; two or more,
\* failure Ambiguous citing n; exactly one, success with that server's id.  The
\* message of a failure is never of both kinds.
C1_NameDecodeOutcome ==
    C1_Case =>
        LET n == call.datum.str
            k == Cardinality(LiveNamed(call.map, n))
        IN  /\ ~(NotFound(out.error) /\ Ambiguous(out.error))
            /\ k = 0 => /\ ~out.ret
                        /\ NotFound(out.error)
                        /\ Cites(out.error, n)
            /\ k >= 2 => /\ ~out.ret
                         /\ Ambiguous(out.error)
                         /\ Cites(out.error, n)
            /\ k = 1 => /\ out.ret
                        /\ "id" \in call.want => out.id \in LiveNamed(call.map, n)
            /\ out.ret => k = 1

C1_Witness ==
    /\ C1_Case
    /\ Cardinality(LiveNamed(call.map, call.datum.str)) >= 2
    /\ Ambiguous(out.error)

EncodeReturned ==
    /\ pc = "returned"
    /\ call.op \in {"convert_server_id_to_datum", "convert_database_id_to_datum"}

\* the decoder of the namespace of the last encode, applied to its result
DecodeOfEncoded ==
    IF call.op = "convert_server_id_to_datum"
    THEN convert_server_id_from_datum(out.name_or_uuid, call.format, call.map,
                                      {"id", "name"}, call.prev)
    ELSE convert_database_id_from_datum(out.name_or_uuid, call.format, call.map,
                                        {"id", "name"}, call.prev)

C2_Case == EncodeReturned /\ out.ret /\ "name_or_uuid" \in call.want

NameShared == Cardinality(LiveNamed(call.map, call.map[call.id].name)) > 1

\* C2 as stated: for every live server or database id and either format, decoding the
\* encoded id with the same format and snapshot succeeds and yields the id, also when
\* several live entries share a name.
C2_RoundTripAlways ==
    C2_Case => DecodeOfEncoded.ret /\ DecodeOfEncoded.id = call.id

\* C2 amended: the round trip yields the id in Uuid format, and in Name format when no
\* other live entry of the namespace has the id's name; in Name format with a shared
\* name the decode fails as Ambiguous.
C2_RoundTripUniqueName ==
    C2_Case =>
        IF call.format = "name" /\ NameShared
        THEN ~DecodeOfEncoded.ret /\ Ambiguous(DecodeOfEncoded.error)
        ELSE DecodeOfEncoded.ret /\ DecodeOfEncoded.id = call.id

C2_Witness ==
    /\ C2_Case
    /\ call.format = "name"
    /\ ~NameShared
    /\ \E other \in DOMAIN call.map : other # call.id /\ IsLive(call.map, other)

C3_Case == Returned("convert_table_id_to_datums")

C3_TableLive == IsLive(call.namespaces, call.id)

C3_DatabaseGone == ~IsLive(call.map, call.namespaces[call.id].database)

\* what convert_table_id_to_datums gives for the table itself
C3_TableResolved ==
    /\ out.ret
    /\ "name_or_uuid" \in call.want =>
            out.name_or_uuid =
                IF call.format = "name"
                THEN datum_str(call.namespaces[call.id].name)
                ELSE datum_str(uuid_to_str(call.id))
    /\ "name" \in call.want => out.name = call.namespaces[call.id].name

\* C3 as stated: for a live table whose database is tombstoned or missing, in either
\* format, the call succeeds, gives the placeholder __deleted_database__ for the
\* database and the table's own name or UUID; for an absent or tombstoned table it fails.
C3_PlaceholderInEitherFormat ==
    C3_Case =>
        /\ ~C3_TableLive => ~out.ret
        /\ (C3_TableLive /\ C3_DatabaseGone) =>
                /\ C3_TableResolved
                /\ "db_name_or_uuid" \in call.want =>
                        out.db_name_or_uuid = datum_str(deleted_database_name)
                /\ "db_name" \in call.want => out.db_name = deleted_database_name

\* C3 amended: as stated, except that the database datum is the placeholder in Name
\* format only; in Uuid format it is the UUID text of the table's database id.  The
\* database name out-parameter is the placeholder in both formats.
C3_PlaceholderName ==
    C3_Case =>
        /\ ~C3_TableLive => out = [call.prev EXCEPT !.ret = FALSE]
        /\ (C3_TableLive /\ C3_DatabaseGone) =>
                /\ C3_TableResolved
                /\ "db_name_or_uuid" \in call.want =>
                        out.db_name_or_uuid =
                            IF call.format = "name"
                            THEN datum_str(deleted_database_name)
                            ELSE datum_str(uuid_to_str(call.namespaces[call.id].database))
                /\ "db_name" \in call.want => out.db_name = deleted_database_name

C3_Witness ==
    /\ C3_Case
    /\ C3_TableLive
    /\ call.namespaces[call.id].database \in DOMAIN call.map
    /\ C3_DatabaseGone
    /\ call.format = "uuid"
    /\ call.want = {"name_or_uuid", "name", "db_name_or_uuid", "db_name"}
    /\ out.db_name = deleted_database_name

\* the keys of the decoder's datum not passed to get or get_optional since init
Unconsumed == DOMAIN datum.obj \ consumed

C4_Case == Returned("check_no_extra_keys") /\ inits = 1

DecodeReturned ==
    /\ pc = "returned"
    /\ call.op \in {"convert_server_id_from_datum", "convert_database_id_from_datum"}

C5_Case ==
    /\ DecodeReturned
    /\ call.format = "uuid"
    /\ call.datum.type = "R_STR"
    /\ str_to_uuid(call.datum.str).ok

\* C5: decoding a well-formed UUID in Uuid format, as a server or a database id,
\* succeeds exactly when the snapshot has a live entry for the id; for an absent and
\* for a tombstoned id alike it fails as NotFound with a message naming the UUID.
C5_UuidDecodeNeedsLiveEntry ==
    C5_Case =>
        LET id == str_to_uuid(call.datum.str).value
        IN  /\ out.ret <=> IsLive(call.map, id)
            /\ (out.ret /\ "id" \in call.want) => out.id = id
            /\ ~out.ret =>
                    /\ NotFound(out.error)
                    /\ ~Ambiguous(out.error)
                    /\ Cites(out.error, uuid_to_str(id))
                    /\ out = [call.prev EXCEPT !.ret = FALSE, !.error = out.error]

C5_Witness ==
    /\ C5_Case
    /\ str_to_uuid(call.datum.str).value \in DOMAIN call.map
    /\ call.map[str_to_uuid(call.datum.str).value].deleted
    /\ NotFound(out.error)

\* C6: no call of a converter or of a decoder method ends the process; each returns
\* to its caller.
C6_NeverAborts == pc # "aborted"

C7_Case == EncodeReturned /\ call.format = "uuid"

\* C7 as stated: encoding an id in Uuid format gives the id's UUID text whatever the
\* snapshot holds, also when the id is absent from it or tombstoned.
C7_UuidEncodeIgnoresSnapshot ==
    C7_Case =>
        /\ out.ret
        /\ "name_or_uuid" \in call.want => out.name_or_uuid = datum_str(uuid_to_str(call.id))

\* C7 amended: encoding an id in Uuid format succeeds exactly when the snapshot has a
\* live entry for the id, and then gives the id's UUID text whatever the name of the
\* entry and the other entries are; for a tombstoned id, and for a server id without
\* an entry, it returns false and writes nothing.
C7_UuidEncodeOfLiveId ==
    C7_Case =>
        /\ out.ret <=> IsLive(call.map, call.id)
        /\ (out.ret /\ "name_or_uuid" \in call.want) =>
                out.name_or_uuid = datum_str(uuid_to_str(call.id))
        /\ ~out.ret => out = [call.prev EXCEPT !.ret = FALSE]

C7_Witness ==
    /\ C7_Case
    /\ out.ret
    /\ "name_or_uuid" \in call.want
    /\ out.name_or_uuid = datum_str(uuid_to_str(call.id))
    /\ \E other \in DOMAIN call.map : other # call.id /\ call.map[other].deleted

C8_Case == Returned("has")

\* C8: has(key) returns whether the datum has the key and changes neither the datum
\* nor the unseen keys, so a check_no_extra_keys right after it still fails and lists
\* every key that was unseen before the has, the key itself among them.
C8_HasIsAPeek ==
    C8_Case =>
        /\ out.ret <=> call.key \in DOMAIN datum.obj
        /\ datum = call.this.datum
        /\ extra_keys = call.this.extra_keys
        /\ \A x \in call.this.extra_keys :
                LET checked == check_no_extra_keys(this, out).out
                IN  ~checked.ret /\ Cites(checked.error, <<" ">> \o x)

C8_Witness ==
    /\ C8_Case
    /\ call.key \in call.this.extra_keys
    /\ out.ret

C9_Case == pc = "returned" /\ call.op \in {"get", "get_optional"}

\* C9: get and get_optional both take the key out of the unseen keys, present or not,
\* and give the field's value when the datum has the key.  Without the key, get fails
\* with a message naming the key; get_optional never fails and gives a missing marker
\* that differs from a null value that is present.
C9_GetAndGetOptional ==
    C9_Case =>
        LET present == call.key \in DOMAIN datum.obj
        IN  /\ extra_keys = call.this.extra_keys \ {call.key}
            /\ datum = call.this.datum
            /\ present => out.value = datum.obj[call.key]
            /\ datum_has(out.value) <=> present
            /\ ~present => out.value # datum_null
            /\ call.op = "get" =>
                    /\ out.ret <=> present
                    /\ out.ret => out.error = call.prev.error
                    /\ ~out.ret => out.error = <<"Expected a field named ", BQ>> \o call.key
                                                \o <<BQ, ".">>
            /\ call.op = "get_optional" =>
                    /\ out.ret = call.prev.ret
                    /\ out.error = call.prev.error

C9_Witness ==
    /\ C9_Case
    /\ call.op = "get"
    /\ call.key \in call.this.extra_keys
    /\ call.key \notin DOMAIN datum.obj
    /\ ~out.ret

C10_Case == DecodeReturned \/ Returned("init")

\* C10: when an identifier decoder returns false, the caller's id and name keep their
\* values and the error string is set; when it returns true, the error string keeps
\* its value and the id and the name are those of one live entry (each is written
\* where the caller passed a pointer).  A failed init leaves the decoder's datum and
\* unseen keys as they were and sets the error string.
C10_FailureLeavesResults ==
    /\ DecodeReturned =>
        /\ ~out.ret =>
                /\ out.id = call.prev.id
                /\ out.name = call.prev.name
                /\ out.error # call.prev.error
                /\ out.error # <<>>
        /\ out.ret =>
                /\ out.error = call.prev.error
                /\ IF "id" \in call.want THEN IsLive(call.map, out.id) ELSE out.id = call.prev.id
                /\ IF "name" \in call.want
                   THEN LiveNamed(call.map, out.name) # {}
                   ELSE out.name = call.prev.name
                /\ call.want = {"id", "name"} => call.map[out.id].name = out.name
    /\ Returned("init") =>
        /\ out.ret <=> call.datum.type = "R_OBJECT"
        /\ ~out.ret =>
                /\ datum = call.this.datum
                /\ extra_keys = call.this.extra_keys
                /\ out.error # call.prev.error
                /\ out.error # <<>>
        /\ out.ret => out.error = call.prev.error

C10_Witness ==
    /\ DecodeReturned
    /\ call.want = {"id", "name"}
    /\ call.prev.error # <<>>
    /\ Ambiguous(out.error)
    /\ out.id = call.prev.id

====
